---------------------------- MODULE Spec2Model ----------------------------
(***************************************************************************)
(* Syncopation index for polyphonic drum rhythms (lhl.ts).                 *)
(*                                                                         *)
(* chunkslhlsyncopation(chunks, midimap, weights, iweights, step) builds a *)
(* metrical grid of instrument tokens from the notes of a NoteSequence     *)
(* (chunkstorhythm) and scores it (polylhlsyncopation).  The model follows *)
(* one call step by step: the grid allocation, one Fill step per note, the *)
(* re-shaping of the grid into tokens, and the scorer's outer loop with    *)
(* its circular backward search, one decrement per step.                   *)
(*                                                                         *)
(* Indices are 0-based as in the source; a TLA+ sequence s is read at      *)
(* s[k + 1] for the source's s[k].                                         *)
(***************************************************************************)
EXTENDS Integers, Sequences, FiniteSets, TLC

VARIABLES
    notes,      \* chunks.notes: the events, each [pitch, quantizedStartStep]
    midimap,    \* argument midimap
    weights,    \* argument weights
    iweights,   \* argument iweights
    step,       \* argument step
    pc,         \* position in the call
    rhythm,     \* chunkstorhythm: let rhythm: number[][]
    noteIdx,    \* chunkstorhythm: the index i of the fill loop
    logged,     \* the steps written by console.log, in order
    rhythmStr,  \* chunkstorhythm: rhythmStr, polylhlsyncopation's rhythm
    i,          \* polylhlsyncopation: the index i of the outer loop
    prev,       \* polylhlsyncopation: let prev
    decs,       \* number of executions of `prev = prev - 1` in this search
    score,      \* polylhlsyncopation: let score
    result,     \* the value returned by chunkslhlsyncopation
    error       \* "none", or the exception that ended the call

vars == <<notes, midimap, weights, iweights, step, pc, rhythm, noteIdx,
          logged, rhythmStr, i, prev, decs, score, result, error>>

inputs == <<notes, midimap, weights, iweights, step>>

-----------------------------------------------------------------------------
(* Bounds of the model.                                                    *)

\* Longest event list drawn by Init.
MaxNotes == 2

-----------------------------------------------------------------------------
(* The tables of lhl.ts.                                                   *)

WEIGHTS16 ==
    <<  0, -4, -3, -4,
       -2, -4, -3, -4,
       -1, -4, -3, -4,
       -2, -4, -3, -4 >>

WEIGHTS32 == WEIGHTS16 \o WEIGHTS16

INSTWEIGHTS ==
    ("BD_HH-SD" :> 2) @@ ("BD-HH_HH-SD" :> 2) @@ ("SD_BD-HH" :> 1) @@
    ("HH-SD_BD-HH" :> 1) @@ ("SD_HH" :> 5) @@ ("BD_HH" :> 5)

MIDIMAP == (35 :> "BD") @@ (36 :> "BD") @@ (37 :> "SD") @@ (38 :> "SD") @@ (42 :> "HH")

-----------------------------------------------------------------------------
(* JavaScript values and library functions used by lhl.ts.                 *)

\* The value of midimap[p] for a pitch p that is no key of midimap.
Undefined == "undefined"

\* The instrument labels, in the order of String comparison (code units).
LabelOrder == <<"BD", "HH", "SD">>

LabelRank(l) == CHOOSE k \in 1..Len(LabelOrder) : LabelOrder[k] = l

\* Array.prototype.sort with no comparator: undefined elements go last, the
\* others are ordered by their strings.  TRUE when a must come before b.
SortBefore(a, b) ==
    /\ a # Undefined
    /\ (b = Undefined \/ LabelRank(a) < LabelRank(b))

\* Insertion of x into the sorted sequence s, after every element that does
\* not come after x.
RECURSIVE InsertSorted(_, _)
InsertSorted(s, x) ==
    IF s = <<>> THEN <<x>>
    ELSE IF SortBefore(x, Head(s)) THEN <<x>> \o s
    ELSE <<Head(s)>> \o InsertSorted(Tail(s), x)

RECURSIVE SortFrom(_, _)
SortFrom(done, rest) ==
    IF rest = <<>> THEN done
    ELSE SortFrom(InsertSorted(done, Head(rest)), Tail(rest))

\* The sort left out: the labels stay in the order of arrival.
SortNone(insts) == insts

\* insts.sort()
Sort(insts) == SortFrom(<<>>, insts)

\* String(x) as Array.prototype.join applies it: undefined gives "".
JoinText(x) == IF x = Undefined THEN "" ELSE x

\* insts.join("-")
RECURSIVE Join(_)
Join(insts) ==
    IF insts = <<>> THEN ""
    ELSE IF Len(insts) = 1 THEN JoinText(Head(insts))
    ELSE JoinText(Head(insts)) \o "-" \o Join(Tail(insts))

\* midimap[inst]
Lookup(map, pitch) == IF pitch \in DOMAIN map THEN map[pitch] ELSE Undefined

-----------------------------------------------------------------------------
(* chunkstorhythm                                                          *)

\* The empty metrical grid: `length` empty pitch lists.
EmptyGrid(length) == [k \in 1..length |-> <<>>]

\* One iteration of the fill loop on the grid `grid`.
FillNote(grid, note) ==
    LET pitch == note.pitch
        j     == note.quantizedStartStep
    IN  IF j >= Len(grid)
        THEN [threw |-> FALSE, logs |-> <<j>>, rhythm |-> grid]
        ELSE IF j < 0
        \* rhythm[j] is undefined: rhythm[j].push throws a TypeError
        THEN [threw |-> TRUE, logs |-> <<>>, rhythm |-> grid]
        ELSE [threw |-> FALSE, logs |-> <<>>,
              rhythm |-> [grid EXCEPT ![j + 1] = Append(@, pitch)]]

\* The labels of one slot's pitches, before the sort.
MapInsts(pitches, map) == [k \in 1..Len(pitches) |-> Lookup(map, pitches[k])]

\* The sort with the comparison reversed.
SortedInstsReversed(pitches, map) ==
    LET s == Sort(MapInsts(pitches, map)) IN [k \in 1..Len(s) |-> s[Len(s) + 1 - k]]

\* The labels of one slot's pitches as they are joined.
SortedInsts(pitches, map) == Sort(MapInsts(pitches, map))

\* One iteration of the re-shape loop: the token of one slot.
Token(pitches, map) ==
    IF Len(pitches) = 0 THEN "" ELSE Join(SortedInsts(pitches, map))

\* The re-shape loop: the list of sorted inst strings.
Reshape(grid, map) == [k \in 1..Len(grid) |-> Token(grid[k], map)]

-----------------------------------------------------------------------------
(* polylhlsyncopation                                                      *)

\* The decrement with no wrap: a negative index is clamped to 0.
DecWrapNoWrap(p, length) ==
    LET q == p - 1 IN IF q < 0 THEN 0 ELSE q

\* The decrement wrapping one slot early (prev <= 0).
DecWrapEarly(p, length) ==
    LET q == p - 1 IN IF q <= 0 THEN length - 1 ELSE q

\* prev = prev - 1, wrapping backwards in the rhythm.
DecWrap(p, length) ==
    LET q == p - 1 IN IF q < 0 THEN length + q ELSE q

\* The tally with `syncopation >= 0` for `syncopation > 0`.
TallyNotStrict(r, w, iw, ix, p) ==
    LET syncopation == w[ix + 1] - w[p + 1]
        instStr     == r[p + 1] \o "_" \o r[ix + 1]
        instScore   == IF instStr \in DOMAIN iw THEN iw[instStr] ELSE 0
    IN  IF syncopation >= 0 THEN syncopation + instScore ELSE 0

\* The tally with `syncopation > 1` for `syncopation > 0`.
TallyOffByOne(r, w, iw, ix, p) ==
    LET syncopation == w[ix + 1] - w[p + 1]
        instStr     == r[p + 1] \o "_" \o r[ix + 1]
        instScore   == IF instStr \in DOMAIN iw THEN iw[instStr] ELSE 0
    IN  IF syncopation > 1 THEN syncopation + instScore ELSE 0

\* The tally with the test on syncopation left out.
TallyUnguarded(r, w, iw, ix, p) ==
    LET syncopation == w[ix + 1] - w[p + 1]
        instStr     == r[p + 1] \o "_" \o r[ix + 1]
        instScore   == IF instStr \in DOMAIN iw THEN iw[instStr] ELSE 0
    IN  syncopation + instScore

\* The tally of onset slot i against the previous onset slot p: what is
\* added to score.  (`instStr in iweights` is membership in the keys of the
\* table: no token pair of these labels names an inherited property.)
Tally(r, w, iw, ix, p) ==
    LET syncopation == w[ix + 1] - w[p + 1]
        instStr     == r[p + 1] \o "_" \o r[ix + 1]
        instScore   == IF instStr \in DOMAIN iw THEN iw[instStr] ELSE 0
    IN  IF syncopation > 0 THEN syncopation + instScore ELSE 0

\* The grid built with the step argument as its length.
GridLengthFromStep(w, st) == st

\* The length of the grid that chunkslhlsyncopation asks chunkstorhythm for.
GridLength(w, st) == Len(w)

-----------------------------------------------------------------------------
(* The three functions of lhl.ts as functions of their arguments.  Each is *)
(* the fold of the loop bodies above.                                      *)

\* The fill loop from note k on.
RECURSIVE FillFrom(_, _, _)
FillFrom(grid, ns, k) ==
    IF k > Len(ns) THEN [threw |-> FALSE, rhythm |-> grid]
    ELSE LET f == FillNote(grid, ns[k])
         IN  IF f.threw THEN [threw |-> TRUE, rhythm |-> grid]
             ELSE FillFrom(f.rhythm, ns, k + 1)

chunkstorhythm(ns, length, st, map) ==
    LET f == FillFrom(EmptyGrid(length), ns, 1)
    IN  IF f.threw THEN [threw |-> TRUE, rhythm |-> <<>>]
        ELSE [threw |-> FALSE, rhythm |-> Reshape(f.rhythm, map)]

\* The do-while loop from prev = p: the slot it ends on.
RECURSIVE FindPrev(_, _)
FindPrev(r, p) ==
    LET q == DecWrap(p, Len(r))
    IN  IF r[q + 1] = "" THEN FindPrev(r, q) ELSE q

\* The outer loop from slot ix on, with the score so far.
RECURSIVE ScoreFrom(_, _, _, _, _)
ScoreFrom(r, w, iw, ix, sc) ==
    IF ix >= Len(r) THEN sc
    ELSE IF r[ix + 1] = "" THEN ScoreFrom(r, w, iw, ix + 1, sc)
    ELSE ScoreFrom(r, w, iw, ix + 1, sc + Tally(r, w, iw, ix, FindPrev(r, ix)))

polylhlsyncopation(r, w, iw) == ScoreFrom(r, w, iw, 0, 0)

\* The outcome of a call: whether it threw, and if not the rhythm that
\* chunkstorhythm returned and the score.
chunkslhlsyncopation(ns, map, w, iw, st) ==
    LET r == chunkstorhythm(ns, GridLength(w, st), st, map)
    IN  IF r.threw THEN [threw |-> TRUE, rhythm |-> <<>>, score |-> 0]
        ELSE [threw |-> FALSE, rhythm |-> r.rhythm,
              score |-> polylhlsyncopation(r.rhythm, w, iw)]

-----------------------------------------------------------------------------
(* The inputs of a call.                                                   *)

NoteOf(p, s) == [pitch |-> p, quantizedStartStep |-> s]

NoteLists(events) == UNION {[1..n -> events] : n \in 0..MaxNotes}

\* Small metrical weight tables, of lengths 0 to 3.
SmallWeights == {<<>>, <<0>>, <<-1, 0>>, <<0, -2, -2>>}

\* An interaction table with a self pair and a negative bonus.
CUSTOMWEIGHTS == ("BD_BD" :> 3) @@ ("BD_HH" :> -2) @@ ("BD-HH_BD-HH" :> 1)

\* Pitches of the small calls: two bass drums, a hi-hat, an unmapped pitch.
SmallPitches == {35, 36, 42, 60}

\* Steps of the small calls for a grid of length n: one before the grid to
\* one past its end.
SmallSteps(n) == -1..n

TypeOK ==
    /\ pc \in {"start", "fill", "score", "search", "tally", "done", "threw"}
    /\ error \in {"none", "TypeError"}
    /\ noteIdx \in 0..Len(notes)
    /\ i \in 0..Len(weights)
    /\ decs \in 0..(Len(weights) + 1)

StartState ==
    /\ pc = "start"
    /\ rhythm = <<>>
    /\ noteIdx = 0
    /\ logged = <<>>
    /\ rhythmStr = <<>>
    /\ i = 0
    /\ prev = 0
    /\ decs = 0
    /\ score = 0
    /\ result = 0
    /\ error = "none"

\* Calls on small grids with arbitrary small tables.
Init ==
    /\ weights \in SmallWeights
    /\ midimap = MIDIMAP
    /\ iweights \in {INSTWEIGHTS, CUSTOMWEIGHTS}
    /\ step \in {Len(weights), Len(weights) + 1}
    /\ notes \in NoteLists({NoteOf(p, s) : p \in SmallPitches,
                                           s \in SmallSteps(Len(weights))})
    /\ StartState

\* The calls of Init that differ in the events and the weights only.
InitSearch ==
    /\ Init
    /\ iweights = INSTWEIGHTS
    /\ step = Len(weights)

\* Steps of the calls with the default tables: one before the grid, strong
\* and weak steps, and a step that is on the 32-step grid only.
DefaultSteps == {-1, 0, 3, 4, 8, 18}

\* Pitches of the calls with the default tables: bass drum, snare drum,
\* hi-hat, and an unmapped pitch.
DefaultPitches == {36, 38, 42, 60}

\* Calls with the default tables on the 16-step and the 32-step grid.
InitDefault ==
    /\ weights \in {WEIGHTS16, WEIGHTS32}
    /\ midimap = MIDIMAP
    /\ iweights = INSTWEIGHTS
    /\ step = Len(weights)
    /\ notes \in NoteLists({NoteOf(p, s) : p \in DefaultPitches, s \in DefaultSteps})
    /\ StartState

-----------------------------------------------------------------------------
(* The steps of a call.                                                    *)

\* chunkslhlsyncopation calls chunkstorhythm, which creates the empty grid.
Call ==
    /\ pc = "start"
    /\ rhythm' = EmptyGrid(GridLength(weights, step))
    /\ noteIdx' = 0
    /\ pc' = "fill"
    /\ UNCHANGED <<inputs, logged, rhythmStr, i, prev, decs, score, result, error>>

\* One iteration of the fill loop.
Fill ==
    /\ pc = "fill"
    /\ noteIdx < Len(notes)
    /\ LET f == FillNote(rhythm, notes[noteIdx + 1])
       IN  /\ rhythm' = f.rhythm
           /\ logged' = logged \o f.logs
           /\ IF f.threw
              THEN pc' = "threw" /\ error' = "TypeError" /\ noteIdx' = noteIdx
              ELSE pc' = "fill" /\ error' = error /\ noteIdx' = noteIdx + 1
    /\ UNCHANGED <<inputs, rhythmStr, i, prev, decs, score, result>>

\* The fill loop is over: the re-shape loop, chunkstorhythm returns, and
\* polylhlsyncopation starts on its result.
ReshapeAll ==
    /\ pc = "fill"
    /\ noteIdx = Len(notes)
    /\ rhythmStr' = Reshape(rhythm, midimap)
    /\ score' = 0
    /\ i' = 0
    /\ pc' = "score"
    /\ UNCHANGED <<inputs, rhythm, noteIdx, logged, prev, decs, result, error>>

\* An iteration of the outer loop on a slot with no event.
SkipEmpty ==
    /\ pc = "score"
    /\ i < Len(rhythmStr)
    /\ rhythmStr[i + 1] = ""
    /\ i' = i + 1
    /\ UNCHANGED <<inputs, pc, rhythm, noteIdx, logged, rhythmStr, prev, decs,
                   score, result, error>>

\* An iteration of the outer loop on a slot with an event: let prev = i.
SearchStart ==
    /\ pc = "score"
    /\ i < Len(rhythmStr)
    /\ rhythmStr[i + 1] # ""
    /\ prev' = i
    /\ decs' = 0
    /\ pc' = "search"
    /\ UNCHANGED <<inputs, rhythm, noteIdx, logged, rhythmStr, i, score, result, error>>

\* One iteration of the do-while loop.  (decs only counts; the loop of a
\* correct search never runs past Len(rhythmStr) iterations, and the count
\* stops one past it.)
SearchStep ==
    /\ pc = "search"
    /\ decs <= Len(rhythmStr)
    /\ LET p == DecWrap(prev, Len(rhythmStr))
       IN  /\ prev' = p
           /\ decs' = decs + 1
           /\ pc' = IF rhythmStr[p + 1] = "" THEN "search" ELSE "tally"
    /\ UNCHANGED <<inputs, rhythm, noteIdx, logged, rhythmStr, i, score, result, error>>

\* The rest of the outer loop's iteration: the tally.
TallyStep ==
    /\ pc = "tally"
    /\ score' = score + Tally(rhythmStr, weights, iweights, i, prev)
    /\ i' = i + 1
    /\ pc' = "score"
    /\ UNCHANGED <<inputs, rhythm, noteIdx, logged, rhythmStr, prev, decs, result, error>>

\* The outer loop is over: return score.
Return ==
    /\ pc = "score"
    /\ i = Len(rhythmStr)
    /\ result' = score
    /\ pc' = "done"
    /\ UNCHANGED <<inputs, rhythm, noteIdx, logged, rhythmStr, i, prev, decs, score, error>>

Next ==
    \/ Call
    \/ Fill
    \/ ReshapeAll
    \/ SkipEmpty
    \/ SearchStart
    \/ SearchStep
    \/ TallyStep
    \/ Return

Spec == Init /\ [][Next]_vars

SpecDefault == InitDefault /\ [][Next]_vars

\* The call is one synchronous computation: it runs on while it has a step.
FairSpec == InitSearch /\ [][Next]_vars /\ WF_vars(Next)

-----------------------------------------------------------------------------
(* Vocabulary of the properties.                                           *)

Terminal == pc \in {"done", "threw"}

\* The grid has been re-shaped: rhythmStr is what chunkstorhythm returned.
Scoring == pc \in {"score", "search", "tally", "done"}

\* What the caller of chunkslhlsyncopation sees, once the call is over.
StateOutcome ==
    [threw  |-> pc = "threw",
     rhythm |-> IF pc = "done" THEN rhythmStr ELSE <<>>,
     score  |-> IF pc = "done" THEN result ELSE 0]

Outcome(ns) == chunkslhlsyncopation(ns, midimap, weights, iweights, step)

\* The step by step call and the three functions agree on every input.
Agreement == Terminal => StateOutcome = Outcome(notes)

RemoveAt(ns, k) == SubSeq(ns, 1, k - 1) \o SubSeq(ns, k + 1, Len(ns))

NotePermutations(n) == {f \in [1..n -> 1..n] : \A a, b \in 1..n : f[a] = f[b] => a = b}

Permute(ns, f) == [k \in 1..Len(ns) |-> ns[f[k]]]

InRange(note) ==
    /\ 0 <= note.quantizedStartStep
    /\ note.quantizedStartStep < Len(weights)

Mapped(note) == note.pitch \in DOMAIN midimap

\* The indices (0-based) of the onset slots of the rhythm sequence.
Onsets == {k \in 0..(Len(rhythmStr) - 1) : rhythmStr[k + 1] # ""}

\* p modulo the grid length, for p >= -Len(rhythmStr).
Wrapped(p) == (p + Len(rhythmStr)) % Len(rhythmStr)

NonNegative(iw) == \A key \in DOMAIN iw : iw[key] >= 0

\* Number of positions of the sequence s that hold x.
Count(s, x) == Cardinality({k \in 1..Len(s) : s[k] = x})

-----------------------------------------------------------------------------
(* C1 *)

\* WEIGHTS16, and the rhythm with BD on step 0, SD on step 8, nothing else.
C1_Scenario ==
    /\ weights = WEIGHTS16
    /\ iweights = INSTWEIGHTS
    /\ pc = "done"
    /\ rhythmStr = [k \in 1..16 |-> IF k = 1 THEN "BD" ELSE IF k = 9 THEN "SD" ELSE ""]

\* C1 as stated: on the 16-step grid with the default tables, the rhythm
\* with a bass drum on step 0 and a snare drum on step 8 scores 0.
C1_Original == C1_Scenario => result = 0

\* C1, amended: on the 16-step grid with the default tables, the rhythm with
\* a bass drum on step 0 and a snare drum on step 8 scores 1: step 8 adds
\* nothing, and step 0, whose previous onset is step 8 around the end of the
\* grid, adds weights[0] - weights[8] = 1 with no interaction bonus.
C1_ScoreIsOne == C1_Scenario => result = 1

C1_Witness == C1_Scenario

-----------------------------------------------------------------------------
(* C2 *)

\* C2: every event whose step is outside [0, gridLength), above or below, is
\* dropped with a diagnostic: the call never aborts, and the rhythm and the
\* score are those of the call without that event.
C2_Claim ==
    /\ pc # "threw"
    /\ pc = "done" =>
         /\ Len(logged) = Cardinality({k \in 1..Len(notes) : ~InRange(notes[k])})
         /\ \A k \in 1..Len(notes) :
               ~InRange(notes[k]) => StateOutcome = Outcome(RemoveAt(notes, k))

-----------------------------------------------------------------------------
(* C3 *)

\* C3: when an in-range event carries a pitch that is no key of the
\* instrument map, the call fails with an unknown-instrument error and
\* returns no rhythm and no score.
C3_Claim ==
    (Terminal /\ \E k \in 1..Len(notes) : InRange(notes[k]) /\ ~Mapped(notes[k]))
        => (pc = "threw" /\ error = "unknown instrument")

-----------------------------------------------------------------------------
(* C4 *)

-----------------------------------------------------------------------------
(* C5 *)

\* C5: when the rhythm sequence has exactly one onset slot, the circular
\* backward search from it ends on that same slot, and the score is 0.
C5_SingleOnset ==
    (Scoring /\ Cardinality(Onsets) = 1) =>
        /\ pc = "tally" => prev = i
        /\ score = 0
        /\ pc = "done" => result = 0

\* One onset slot holding two events, not on the first slot of the grid.
C5_Witness ==
    /\ pc = "done"
    /\ Onsets = {1}
    /\ Len(rhythm[2]) = 2
    /\ rhythmStr[2] = "BD-HH"
    /\ iweights = CUSTOMWEIGHTS

-----------------------------------------------------------------------------
(* C6 *)

\* C6: every permutation of the event list gives the same rhythm sequence
\* and the same score (and fails when the list as given fails).
C6_OrderIndependent ==
    Terminal =>
        \A f \in NotePermutations(Len(notes)) : Outcome(Permute(notes, f)) = StateOutcome

\* A hi-hat that arrives before a bass drum of the same step.
C6_Witness ==
    /\ pc = "done"
    /\ Len(notes) = 2
    /\ notes[1].pitch = 42
    /\ notes[2].pitch = 36
    /\ notes[1].quantizedStartStep = notes[2].quantizedStartStep
    /\ InRange(notes[1])
    /\ rhythmStr[notes[1].quantizedStartStep + 1] = "BD-HH"

-----------------------------------------------------------------------------
(* C7 *)

\* The labels joined into the token of slot k (1-based).
SlotInsts(k) == SortedInsts(rhythm[k], midimap)

\* C7 as stated: in every token the labels are in lexicographic order and
\* pairwise distinct.
C7_Original ==
    pc = "done" =>
        \A k \in 1..Len(rhythm) :
            (\A n \in 1..Len(rhythm[k]) : rhythm[k][n] \in DOMAIN midimap) =>
                \A a, b \in 1..Len(SlotInsts(k)) :
                    a < b => LabelRank(SlotInsts(k)[a]) < LabelRank(SlotInsts(k)[b])

\* C7, amended: in every token the labels are in lexicographic order, with
\* repeats kept: a label stands once for every event of the slot whose pitch
\* maps to it (nothing is deduplicated), and the empty fragments of unmapped
\* pitches come after all labels.
C7_SortedWithRepeats ==
    pc = "done" =>
        \A k \in 1..Len(rhythm) :
            /\ rhythmStr[k] = IF rhythm[k] = <<>> THEN "" ELSE Join(SlotInsts(k))
            /\ Len(SlotInsts(k)) = Len(rhythm[k])
            /\ \A a, b \in 1..Len(SlotInsts(k)) :
                   a < b => ~SortBefore(SlotInsts(k)[b], SlotInsts(k)[a])
            /\ \A l \in {Undefined} \cup {LabelOrder[n] : n \in 1..Len(LabelOrder)} :
                   Count(SlotInsts(k), l) = Count(MapInsts(rhythm[k], midimap), l)

\* A returned rhythm with a slot that holds the two bass drum pitches.
C7_Witness ==
    /\ pc = "done"
    /\ \E k \in 1..Len(rhythm) :
          /\ rhythm[k] = <<36, 35>>
          /\ rhythmStr[k] = "BD-BD"

-----------------------------------------------------------------------------
(* C8 *)

\* C8: with the default weights (16 or 32 steps) and the default interaction
\* table, the running total is non-negative after every onset slot, and so
\* is the returned score.
C8_NonNegative ==
    (weights \in {WEIGHTS16, WEIGHTS32} /\ iweights = INSTWEIGHTS) =>
        /\ score >= 0
        /\ pc = "done" => result >= 0

\* A call that returned a tally with an interaction bonus (SD then HH).
C8_Witness ==
    /\ weights = WEIGHTS32
    /\ iweights = INSTWEIGHTS
    /\ pc = "done"
    /\ result >= 6

-----------------------------------------------------------------------------
(* C9 *)

\* The search from onset slot i has made decs decrements: at most one per
\* slot, prev is decs slots before i around the grid, every slot passed on
\* the way is empty, and the slot the search ends on is not.
C9_SearchInv ==
    pc \in {"search", "tally"} =>
        /\ decs <= Len(rhythmStr)
        /\ prev = Wrapped(i - decs)
        /\ \A d \in 1..(decs - 1) : rhythmStr[Wrapped(i - d) + 1] = ""
        /\ pc = "search" /\ decs > 0 => rhythmStr[prev + 1] = ""
        /\ pc = "tally" => decs >= 1 /\ rhythmStr[prev + 1] # ""

\* C9: the circular backward search ends after at most gridLength
\* decrements on the nearest non-empty slot before i (every slot between is
\* empty), and every call comes to its end.
C9_SearchTerminates == [](C9_SearchInv) /\ <>(Terminal)

\* A search that went all the way round the grid of three slots.
C9_Witness ==
    /\ pc = "tally"
    /\ Len(rhythmStr) = 3
    /\ decs = 3
    /\ i = 1
    /\ prev = 1

-----------------------------------------------------------------------------
(* C10 *)

\* C10: when every interaction bonus is non-negative, the score is 0 exactly
\* when all onset slots carry the same metrical weight, and is at least 1
\* when two of them differ.
C10_ZeroIffEqualWeights ==
    (pc = "done" /\ NonNegative(iweights)) =>
        LET same == \A a, b \in Onsets : weights[a + 1] = weights[b + 1]
        IN  /\ result = 0 <=> same
            /\ ~same => result >= 1

\* Two onset slots of equal weight that score 0, next to an empty slot of
\* another weight.
C10_Witness ==
    /\ pc = "done"
    /\ NonNegative(iweights)
    /\ weights = <<0, -2, -2>>
    /\ Onsets = {1, 2}
    /\ result = 0

=============================================================================
